---- MODULE Spec2Model ----
(***************************************************************************)
(* The libvirt machine driver (pkg/libvirt): one Driver instance, the      *)
(* hypervisor objects it talks to, and the driver's public operations.     *)
(*                                                                         *)
(* The driver is single-threaded and blocking.  An operation is one action *)
(* unless it sleeps: Stop and Start poll with time.Sleep between polls, so *)
(* each poll is an action of its own and the hypervisor may change the     *)
(* domain's state between two polls.  The outcome of every hypervisor call *)
(* is an input: F is the set of calls that fail in the step.               *)
(***************************************************************************)
EXTENDS Integers, Sequences, FiniteSets, TLC

VARIABLES
    d,            \* the Driver struct: embedded driver record, conn, vm, vmLoaded
    domains,      \* hypervisor: names of the defined domains
    virState,     \* hypervisor: native state of the driver's domain
    volCapacity,  \* hypervisor: capacity of the machine's volume
    op,           \* the public operation running or last run
    pc,           \* where the driver is: idle, in a polling loop, or returned
    i,            \* the loop index of the polling loop
    ret,          \* the error the operation returned (Nil for success)
    calls,        \* hypervisor calls the operation issued, in order
    g,            \* what the operation observed (history of the current call)
    dir,          \* setupDiskImage: the directory its permission walk is at
    fs            \* file system: the mode of each directory the walk can visit

vars == <<d, domains, virState, volCapacity, op, pc, i, ret, calls, g, dir, fs>>

-----------------------------------------------------------------------------
(* Bounds of the model *)

MaxCapacity == 2     \* disk capacities are 0..MaxCapacity (0: unknown)
MaxDepth == 1        \* store paths have up to MaxDepth components
MaxMemory == 33      \* memory sizes in MB are 0..MaxMemory, and MemValues

(* Program constants *)

DefaultMemory == 8096
DefaultCPUs == 4
DefaultNetwork == "crc"
StopPolls == 120
StartPolls == 60
HostName == "default"
macAddress == "52:fd:fc:07:21:82"

(* Values the inputs are drawn from *)

OtherName == "other"
Names == {HostName, OtherName}
MemValues == {DefaultMemory, 4096}
CPUValues == {DefaultCPUs, 2}
Networks == {"", DefaultNetwork}
IPAddrs == {"192.168.130.11", "192.168.130.12"}
OtherMac == "52:54:00:00:00:01"
Capacities == 0..MaxCapacity

Nil == "nil"
Pending == "pending"
NoVM == "nil-domain"

-----------------------------------------------------------------------------
(* libvirt's native domain states and libmachine's abstract states *)

NativeStates == {"NOSTATE", "RUNNING", "BLOCKED", "PAUSED",
                 "SHUTDOWN", "SHUTOFF", "CRASHED", "PMSUSPENDED"}

None == "None"
Running == "Running"
Paused == "Paused"
Saved == "Saved"
Stopped == "Stopped"
Error == "Error"

\* The switch of GetState.
StateOfBlockedAsRunning(virSt) ==
    CASE virSt = "NOSTATE" -> None
      [] virSt = "RUNNING" -> Running
      [] virSt = "BLOCKED" -> Running
      [] virSt = "PAUSED" -> Paused
      [] virSt = "SHUTDOWN" -> Stopped
      [] virSt = "CRASHED" -> Error
      [] virSt = "PMSUSPENDED" -> Saved
      [] virSt = "SHUTOFF" -> Stopped
      [] OTHER -> None

StateOf(virSt) ==
    CASE virSt = "NOSTATE" -> None
      [] virSt = "RUNNING" -> Running
      [] virSt = "BLOCKED" -> Error
      [] virSt = "PAUSED" -> Paused
      [] virSt = "SHUTDOWN" -> Stopped
      [] virSt = "CRASHED" -> Error
      [] virSt = "PMSUSPENDED" -> Saved
      [] virSt = "SHUTOFF" -> Stopped
      [] OTHER -> None

-----------------------------------------------------------------------------
(* Hypervisor calls and their failures *)

Call(c, n, v) == [call |-> c, name |-> n, val |-> v]
C0(c) == Call(c, "", 0)
Issued(cs, c) == \E k \in 1..Len(cs) : cs[k].call = c
CountOf(cs, c) == Cardinality({k \in 1..Len(cs) : cs[k].call = c})

\* The sets of failing calls a step is tried with: every combination, or,
\* for a sequence that returns at its first failing call, that call alone.
AnyOf(S) == SUBSET S
FirstOf(S) == {{}} \cup {{c} : c \in S}

\* A call on the domain handle fails when the input says so, and always when
\* the domain the handle refers to is no longer defined.
HandleCallFails(dd, F, c) == c \in F \/ dd.vm \notin domains

-----------------------------------------------------------------------------
(* Paths *)

\* A cleaned path: absolute or relative, and its components.  "/" and "."
\* are the two paths without components.
Path(abs, comps) == [abs |-> abs, comps |-> comps]
Root == Path(TRUE, <<>>)
Dot == Path(FALSE, <<>>)

\* filepath.Join
Join(p, names) == Path(p.abs, p.comps \o names)

\* filepath.Dir: the path without its last component; "/" and "." are
\* their own parents.
Dir(p) ==
    IF p.comps = <<>> THEN p
    ELSE Path(p.abs, SubSeq(p.comps, 1, Len(p.comps) - 1))

\* d.ResolveStorePath("."): the machine's directory under the store path.
ResolveStorePath(dd) == Join(dd.StorePath, <<"machines", dd.MachineName>>)

\* main's NewDriver("default", "path")
MainStorePath == Path(FALSE, <<"path">>)

-----------------------------------------------------------------------------
(* Construction *)

NewDriver(hostName, storePath) ==
    [MachineName |-> hostName, StorePath |-> storePath, ImageFormat |-> "",
     Memory |-> 0, CPU |-> 0, DiskCapacity |-> 0,
     Network |-> DefaultNetwork, IPAddress |-> "",
     conn |-> FALSE, vm |-> NoVM, vmLoaded |-> FALSE]

\* The fields of the embedded libvirtdriver.Driver, which a configuration
\* snapshot carries and "*d.Driver = newDriver" replaces.
ConfigFields == {"MachineName", "StorePath", "ImageFormat", "Memory", "CPU",
                 "DiskCapacity", "Network", "IPAddress"}
ConfigOf(dd) == [f \in ConfigFields |-> dd[f]]
Configs ==
    [MachineName : Names, StorePath : {MainStorePath}, ImageFormat : {""},
     Memory : MemValues, CPU : CPUValues,
     DiskCapacity : Capacities, Network : Networks, IPAddress : {""}]
NoConfig ==
    [MachineName |-> "", StorePath |-> Dot, ImageFormat |-> "",
     Memory |-> 0, CPU |-> 0, DiskCapacity |-> 0,
     Network |-> "", IPAddress |-> ""]

\* Start's steps before the power-on: whether they are recorded (run); the
\* result of each, "none" for a step not run; for validateNetwork also
\* whether it looked the network up, what the hypervisor holds for it, and
\* what IsActive answered; the recorded disk capacity Start began with.
NoNet == [exists |-> FALSE, nIPs |-> 0, address |-> FALSE, active |-> FALSE]
NoSteps ==
    [run |-> FALSE, vmRef |-> "none", netErr |-> "none", looked |-> FALSE,
     net |-> NoNet, active |-> "none", pool |-> "none", vol |-> "none",
     disk0 |-> 0]

\* What an operation observed; reset when the next operation begins.
G0 ==
    [stopS |-> "unset",       \* Stop: its first query: Stopped or NotStopped
     stopRet |-> "none",      \* Stop: what it returned
     polls |-> 0,             \* Stop: state queries made by its loop
     sawStopped |-> FALSE,    \* Stop: its last poll observed Stopped
     startRet |-> "none",     \* Start: what it returned
     ipPolls |-> 0,           \* Start: GetIP calls made by its loop
     firstIP |-> "",          \* Start: the first non-empty IP GetIP returned
     warned |-> FALSE,        \* Start: logged "Unable to determine VM's IP"
     getS |-> "unset",        \* GetIP/GetState: the abstract state obtained
     getErr |-> "none",       \* GetIP/GetState: the state query's error
     vir |-> "unset",         \* GetState: the native state the query read
     ip |-> "",               \* GetIP: the address returned
     queried |-> FALSE,       \* GetIP: ListAllInterfaceAddresses was called
     listOk |-> FALSE,        \* GetIP: and it succeeded
     ifaces |-> <<>>,         \* GetIP: the lease table it returned
     destroyErr |-> "none",   \* Remove/Kill: result of Destroy
     undefineErr |-> "none",  \* Remove: result of Undefine
     parsed |-> FALSE,        \* UpdateConfigRaw: the snapshot unmarshalled
     new |-> NoConfig,        \* UpdateConfigRaw: the unmarshalled snapshot
     old |-> NoConfig,        \* UpdateConfigRaw: the record before the call
     setMemory |-> "none",    \* UpdateConfigRaw: result of its setMemory call
     setVcpus |-> "none",     \* UpdateConfigRaw: result of its setVcpus call
     volErr |-> "none",       \* UpdateConfigRaw: result of getVolCapacity
     volSeen |-> 0,           \* UpdateConfigRaw: the capacity it returned
     resize |-> "none",       \* UpdateConfigRaw: result of resizeDiskImage
     setup |-> "none",        \* Create: result of setupDiskImage
     xml |-> "none",          \* Create: result of domainXML
     define |-> "none",       \* Create: result of getConn and DomainDefineXML
     loaded0 |-> "none",      \* Create: vmLoaded when Create began
     steps |-> NoSteps,       \* Start: the results of its steps before the
                              \*   power-on, until its loop begins
     pollErr |-> "none",      \* Stop: the state query's error in its last poll
     ipErr |-> "none",        \* Start: GetIP's error in its last poll
     ip0 |-> "none"]          \* Start: the recorded IP before its last poll

\* The directories from p up to, not including, "/"; all of them with
\* mode 0755.
Ancestors(p) == {Path(p.abs, SubSeq(p.comps, 1, k)) : k \in 1..Len(p.comps)}
                  \cup (IF p.abs THEN {} ELSE {Dot})
AllExecutable(p) == [a \in Ancestors(p) |-> 493]

Init ==
    /\ d = NewDriver(HostName, MainStorePath)
    /\ dir = Root
    /\ fs = AllExecutable(ResolveStorePath(NewDriver(HostName, MainStorePath)))
    /\ domains = Names
    /\ virState = "SHUTOFF"
    /\ volCapacity = 1
    /\ op = "none"
    /\ pc = "idle"
    /\ i = 0
    /\ ret = Nil
    /\ calls = <<>>
    /\ g = G0

-----------------------------------------------------------------------------
(* getConn and validateVMRef *)

getConnErr(dd, F) ==
    IF ~dd.conn /\ "NewConnect" \in F THEN "ErrConnect" ELSE Nil

\* The body of validateVMRef's "if !d.vmLoaded".
fetchVM(dd, F) ==
    IF getConnErr(dd, F) # Nil
    THEN [d |-> dd, err |-> "ErrConnect", calls |-> <<>>]
    ELSE IF "LookupDomainByName" \in F \/ dd.MachineName \notin domains
    THEN [d |-> [dd EXCEPT !.conn = TRUE], err |-> "ErrFetchMachine",
          calls |-> <<Call("LookupDomainByName", dd.MachineName, 0)>>]
    ELSE [d |-> [dd EXCEPT !.conn = TRUE, !.vm = dd.MachineName, !.vmLoaded = TRUE],
          err |-> Nil,
          calls |-> <<Call("LookupDomainByName", dd.MachineName, 0)>>]

\* The errors of validateVMRef whose message contains d.MachineName:
\* "Failed to fetch machine '%s'", and not getConn's "Unable to connect to
\* kvm driver, did you add yourself to the libvirtd group?".
NamesMachine(err) == err = "ErrFetchMachine"

validateVMRefNotCached(dd, F) == fetchVM(dd, F)

validateVMRef(dd, F) ==
    IF dd.vmLoaded
    THEN [d |-> dd, err |-> Nil, calls |-> <<>>]
    ELSE fetchVM(dd, F)

-----------------------------------------------------------------------------
(* GetState and GetIP *)

GetState(dd, F) ==
    LET r == validateVMRef(dd, F) IN
    IF r.err # Nil
    THEN [d |-> r.d, s |-> None, err |-> r.err, calls |-> r.calls, vir |-> "unset"]
    ELSE IF HandleCallFails(r.d, F, "GetState")
    THEN [d |-> r.d, s |-> None, err |-> "ErrGetState", calls |-> r.calls, vir |-> "unset"]
    ELSE [d |-> r.d, s |-> StateOf(virState), err |-> Nil, calls |-> r.calls,
          vir |-> virState]

IPv4 == "IPv4"
IPv6 == "IPv6"

RECURSIVE FirstOfType(_, _)
FirstOfType(addrs, type) ==
    IF addrs = <<>> THEN ""
    ELSE IF Head(addrs).Type = type THEN Head(addrs).Addr
    ELSE FirstOfType(Tail(addrs), type)

\* The two nested loops of GetIP over the lease table.
RECURSIVE FirstIPv4AnyMac(_)
FirstIPv4AnyMac(ifaces) ==
    IF ifaces = <<>> THEN ""
    ELSE IF FirstOfType(Head(ifaces).Addrs, IPv4) # ""
    THEN FirstOfType(Head(ifaces).Addrs, IPv4)
    ELSE FirstIPv4AnyMac(Tail(ifaces))

RECURSIVE FirstIPv4(_)
FirstIPv4(ifaces) ==
    IF ifaces = <<>> THEN ""
    ELSE IF Head(ifaces).Hwaddr = macAddress
            /\ FirstOfType(Head(ifaces).Addrs, IPv4) # ""
    THEN FirstOfType(Head(ifaces).Addrs, IPv4)
    ELSE FirstIPv4(Tail(ifaces))

GetIP(dd, F, ifaces) ==
    LET st == GetState(dd, F) IN
    IF st.err # Nil
    THEN [d |-> st.d, ip |-> "", err |-> "ErrUnknownState", calls |-> st.calls,
          s |-> st.s, sErr |-> st.err, queried |-> FALSE, listOk |-> FALSE]
    ELSE IF st.s # Running
    THEN [d |-> st.d, ip |-> "", err |-> "ErrNotRunning", calls |-> st.calls,
          s |-> st.s, sErr |-> Nil, queried |-> FALSE, listOk |-> FALSE]
    ELSE IF HandleCallFails(st.d, F, "ListAllInterfaceAddresses")
    THEN [d |-> st.d, ip |-> "", err |-> "ErrListInterfaces", calls |-> st.calls,
          s |-> st.s, sErr |-> Nil, queried |-> TRUE, listOk |-> FALSE]
    ELSE [d |-> st.d, ip |-> FirstIPv4(ifaces), err |-> Nil, calls |-> st.calls,
          s |-> st.s, sErr |-> Nil, queried |-> TRUE, listOk |-> TRUE]

\* Lease tables: up to n interfaces, each with up to m addresses.
SeqsUpTo(S, n) == UNION {[1..k -> S] : k \in 0..n}
AddrEntries == [Type : {IPv4, IPv6}, Addr : IPAddrs]
IfaceLists(n, m) ==
    SeqsUpTo([Hwaddr : {macAddress, OtherMac}, Addrs : SeqsUpTo(AddrEntries, m)], n)
LeaseTables == IfaceLists(1, 1)

-----------------------------------------------------------------------------
(* validateNetwork, validateStoragePool, getVolCapacity *)

\* What the hypervisor holds for the named network: whether it exists, the
\* number of <ip> entries of its descriptor, whether the first has an
\* address, whether the network is active.
NetworkInputs ==
    {n \in [exists : BOOLEAN, nIPs : 0..2, address : BOOLEAN, active : BOOLEAN] :
        /\ n.nIPs = 0 => ~n.address
        /\ ~n.exists => n.nIPs = 0 /\ ~n.active}

NetworkHasIPs(n) == n >= 1

\* "if len(nw.IPs) != 1" is not taken
NetworkIPsOk(n) == n = 1

\* "active, err := network.IsActive()": a failed query gives active = false.
IsActive(F, net) ==
    IF "IsActive" \in F THEN "failed"
    ELSE IF net.active THEN "active" ELSE "inactive"

\* looked: the network was looked up; active: what IsActive answered.
validateNetwork(dd, F, net) ==
    LET no == [looked |-> FALSE, active |-> "none"]
        yes == [looked |-> TRUE, active |-> "none"]
        asked == [looked |-> TRUE, active |-> IsActive(F, net)]
    IN
    IF dd.Network = "" THEN [d |-> dd, err |-> Nil, calls |-> <<>>] @@ no
    ELSE IF getConnErr(dd, F) # Nil
    THEN [d |-> dd, err |-> "ErrConnect", calls |-> <<>>] @@ no
    ELSE LET dc == [dd EXCEPT !.conn = TRUE]
             look == <<Call("LookupNetworkByName", dd.Network, 0)>>
         IN
         IF ~net.exists \/ "LookupNetworkByName" \in F
         THEN [d |-> dc, err |-> "ErrNetworkNotDefined", calls |-> look] @@ yes
         ELSE IF "GetXMLDesc" \in F
         THEN [d |-> dc, err |-> "ErrNetworkXML", calls |-> look] @@ yes
         ELSE IF ~NetworkIPsOk(net.nIPs)
         THEN [d |-> dc, err |-> "ErrNetworkIPs", calls |-> look] @@ yes
         ELSE IF ~net.address
         THEN [d |-> dc, err |-> "ErrNetworkNoDHCP", calls |-> look] @@ yes
         ELSE IF IsActive(F, net) = "active"
         THEN [d |-> dc, err |-> Nil, calls |-> look] @@ asked
         ELSE IF "NetworkCreate" \in F
         THEN [d |-> dc, err |-> "ErrNetworkCreate",
               calls |-> look \o <<Call("NetworkCreate", dd.Network, 0)>>] @@ asked
         ELSE [d |-> dc, err |-> Nil,
               calls |-> look \o <<Call("NetworkCreate", dd.Network, 0)>>] @@ asked

validateStoragePool(F) ==
    IF "validateStoragePool" \in F THEN "ErrStoragePool" ELSE Nil

getVolCapacity(F) ==
    IF "getVolCapacity" \in F
    THEN [cap |-> 0, err |-> "ErrVolCapacity"]
    ELSE [cap |-> volCapacity, err |-> Nil]

-----------------------------------------------------------------------------
(* Stop *)

StopAlwaysShutsDown(s) == TRUE

\* "if s != state.Stopped"
StopNeedsShutdown(s) == s # Stopped

StopPollDoneOnNone(s) == s = Stopped \/ s = None

\* "if s == state.Stopped { return nil }" in the loop
StopPollDone(s) == s = Stopped

\* Stop up to its loop: poll says whether the loop is entered.
StopBegin(dd, F) ==
    LET r == validateVMRef(dd, F)
        st == GetState(r.d, F)
        cs == r.calls \o st.calls
        s0 == IF st.s = Stopped THEN "Stopped" ELSE "NotStopped"
    IN
    IF r.err # Nil
    THEN [d |-> r.d, err |-> r.err, calls |-> r.calls, poll |-> FALSE, s |-> "unset"]
    ELSE IF st.err # Nil
    THEN [d |-> st.d, err |-> st.err, calls |-> cs, poll |-> FALSE, s |-> "unset"]
    ELSE IF ~StopNeedsShutdown(st.s)
    THEN [d |-> st.d, err |-> Nil, calls |-> cs, poll |-> FALSE, s |-> s0]
    ELSE IF HandleCallFails(st.d, F, "Shutdown")
    THEN [d |-> st.d, err |-> "ErrShutdown", calls |-> cs \o <<C0("Shutdown")>>,
          poll |-> FALSE, s |-> s0]
    ELSE IF 0 < StopPolls
    THEN [d |-> st.d, err |-> Pending, calls |-> cs \o <<C0("Shutdown")>>,
          poll |-> TRUE, s |-> s0]
    ELSE [d |-> st.d, err |-> "ErrGracefulShutdown",
          calls |-> cs \o <<C0("Shutdown")>>, poll |-> FALSE, s |-> s0]

\* Where the driver is once Stop has returned inside operation o.
AfterStop(o, e) == IF o = "Restart" THEN "StopReturned" ELSE "returned"

StopCalls == {"NewConnect", "LookupDomainByName", "GetState", "Shutdown"}

StopOrRestart(o) ==
    /\ pc = "idle"
    /\ \E F \in AnyOf(StopCalls) :
         LET r == StopBegin(d, F) IN
         /\ op' = o
         /\ d' = r.d
         /\ calls' = r.calls
         /\ i' = 0
         /\ g' = [G0 EXCEPT !.stopS = r.s,
                            !.stopRet = IF r.poll THEN "none" ELSE r.err]
         /\ pc' = IF r.poll THEN "StopPoll" ELSE AfterStop(o, r.err)
         /\ ret' = IF ~r.poll /\ AfterStop(o, r.err) = "returned"
                   THEN r.err ELSE Pending
    /\ UNCHANGED <<domains, virState, volCapacity, dir, fs>>

Stop == StopOrRestart("Stop")

Restart == StopOrRestart("Restart")

\* One iteration of Stop's loop: sleep, query the state, test it.
StopPoll ==
    /\ pc = "StopPoll"
    /\ i < StopPolls
    /\ \E F \in AnyOf({"GetState"}) :
         LET st == GetState(d, F)
             done == StopPollDone(st.s)
             last == ~(i + 1 < StopPolls)
             e == IF done THEN Nil
                  ELSE IF last THEN "ErrGracefulShutdown" ELSE Pending
         IN
         /\ d' = st.d
         /\ i' = IF done THEN i ELSE i + 1
         /\ g' = [g EXCEPT !.polls = @ + 1, !.sawStopped = (st.s = Stopped),
                           !.stopRet = IF e = Pending THEN "none" ELSE e,
                           !.pollErr = IF e = Pending THEN "none" ELSE st.err]
         /\ pc' = IF e = Pending THEN "StopPoll" ELSE AfterStop(op, e)
         /\ ret' = IF e # Pending /\ AfterStop(op, e) = "returned" THEN e ELSE Pending
    /\ UNCHANGED <<domains, virState, volCapacity, op, calls, dir, fs>>

-----------------------------------------------------------------------------
(* Start *)

\* Start up to "time.Sleep(5 * time.Second)": poll says whether the IP loop
\* is entered, created whether the power-on call succeeded.
NeverNeedsVolCapacity(dd) == FALSE

\* "if d.DiskCapacity == 0"
NeedsVolCapacity(dd) == dd.DiskCapacity = 0

StartBegin(dd, F, net) ==
    LET r == validateVMRef(dd, F)
        n == validateNetwork(r.d, F, net)
        pool == validateStoragePool(F)
        vol == getVolCapacity(F)
        needVol == NeedsVolCapacity(n.d)
        dv == IF needVol THEN [n.d EXCEPT !.DiskCapacity = vol.cap] ELSE n.d
        cs == r.calls \o n.calls
        no == [poll |-> FALSE, created |-> FALSE]
        s0 == [NoSteps EXCEPT !.run = TRUE, !.vmRef = r.err,
                              !.disk0 = dd.DiskCapacity]
        s1 == [s0 EXCEPT !.netErr = n.err, !.active = n.active,
                         !.looked = n.looked,
                         !.net = IF n.looked THEN net ELSE NoNet]
        s2 == [s1 EXCEPT !.pool = pool]
        s3 == [s2 EXCEPT !.vol = IF needVol THEN vol.err ELSE "none"]
    IN
    IF r.err # Nil
    THEN [d |-> r.d, err |-> r.err, calls |-> r.calls, steps |-> s0] @@ no
    ELSE IF n.err # Nil
    THEN [d |-> n.d, err |-> n.err, calls |-> cs, steps |-> s1] @@ no
    ELSE IF pool # Nil
    THEN [d |-> n.d, err |-> pool, calls |-> cs, steps |-> s2] @@ no
    ELSE IF needVol /\ vol.err # Nil
    THEN [d |-> n.d, err |-> vol.err, calls |-> cs, steps |-> s3] @@ no
    ELSE IF HandleCallFails(dv, F, "Create")
    THEN [d |-> dv, err |-> "ErrCreate", calls |-> cs \o <<C0("Create")>>,
          steps |-> s3] @@ no
    ELSE IF dv.Network = ""
    THEN [d |-> dv, err |-> Nil, calls |-> cs \o <<C0("Create")>>,
          poll |-> FALSE, created |-> TRUE, steps |-> s3]
    ELSE [d |-> dv, err |-> Pending, calls |-> cs \o <<C0("Create")>>,
          poll |-> TRUE, created |-> TRUE, steps |-> s3]

\* After the loop: "if d.IPAddress == "" { log.Warnf(...) }"
StartWarns(dd) == dd.IPAddress = ""

StartCalls == {"NewConnect", "LookupDomainByName", "LookupNetworkByName",
               "GetXMLDesc", "IsActive", "NetworkCreate", "validateStoragePool",
               "getVolCapacity", "Create"}

\* Start returns at its first failing call, except that a failed IsActive is
\* followed by the network's Create.
StartFailures == FirstOf(StartCalls) \cup {{"IsActive", "NetworkCreate"}}

\* Start's first part, run by Start itself (from idle) and by Restart (after Stop).
StartFrom(o, gg, cs0) ==
    \E F \in StartFailures, net \in NetworkInputs :
        LET r == StartBegin(d, F, net)
            loop == r.poll /\ 0 < StartPolls
            e == IF r.poll /\ ~loop THEN Nil ELSE r.err
        IN
        /\ op' = o
        /\ d' = r.d
        /\ calls' = cs0 \o r.calls
        /\ i' = 0
        /\ virState' = IF r.created THEN "RUNNING" ELSE virState
        /\ pc' = IF loop THEN "StartPoll" ELSE "returned"
        /\ ret' = e
        /\ g' = [gg EXCEPT !.startRet = IF loop THEN "none" ELSE e,
                           !.warned = ~loop /\ e = Nil /\ StartWarns(r.d),
                           !.steps = r.steps]
        /\ UNCHANGED <<domains, volCapacity, dir, fs>>

Start ==
    /\ pc = "idle"
    /\ StartFrom("Start", G0, <<>>)

RestartAlwaysStarts(stopErr) == TRUE

\* Restart: "if err := d.Stop(); err != nil { return err }"
RestartContinues(stopErr) == stopErr = Nil

\* Restart, when its call of Stop has returned: return Stop's error, or go
\* on to Start (Stop's locals are gone).
RestartAfterStop ==
    /\ pc = "StopReturned"
    /\ IF RestartContinues(g.stopRet)
       THEN /\ pc' = "RestartStart"
            /\ ret' = Pending
            /\ g' = [g EXCEPT !.polls = 0, !.sawStopped = FALSE, !.stopS = "unset",
                              !.pollErr = "none"]
       ELSE /\ pc' = "returned"
            /\ ret' = g.stopRet
            /\ g' = g
    /\ i' = 0
    /\ UNCHANGED <<d, domains, virState, volCapacity, op, calls, dir, fs>>

\* Restart: "return d.Start()".
RestartStart ==
    /\ pc = "RestartStart"
    /\ StartFrom(op, g, calls)

StartPollNeverFails(err) == FALSE

\* Start's loop: "if err != nil { return fmt.Errorf(...) }" after GetIP
StartPollFails(err) == err # Nil

\* One iteration of Start's loop: GetIP, then sleep or leave the loop.
StartPoll ==
    /\ pc = "StartPoll"
    /\ i < StartPolls
    /\ \E F \in AnyOf({"GetState", "ListAllInterfaceAddresses"}),
          ifaces \in LeaseTables :
         LET r == GetIP(d, F, ifaces)
             last == ~(i + 1 < StartPolls)
             fails == StartPollFails(r.err)
             found == ~fails /\ r.ip # ""
             dn == IF found THEN [r.d EXCEPT !.IPAddress = r.ip] ELSE r.d
             e == IF fails THEN "ErrGetIPDuringStart"
                  ELSE IF found \/ last THEN Nil ELSE Pending
         IN
         /\ d' = dn
         /\ i' = IF ~fails /\ ~found THEN i + 1 ELSE i
         /\ pc' = IF e = Pending THEN "StartPoll" ELSE "returned"
         /\ ret' = e
         /\ g' = [g EXCEPT !.ipPolls = @ + 1,
                           !.firstIP = IF found THEN r.ip ELSE @,
                           !.startRet = IF e = Pending THEN "none" ELSE e,
                           !.warned = e = Nil /\ StartWarns(dn),
                           !.steps = NoSteps,
                           !.ipErr = r.err, !.ip0 = d.IPAddress]
    /\ UNCHANGED <<domains, virState, volCapacity, op, calls, dir, fs>>

-----------------------------------------------------------------------------
(* setupDiskImage, Create *)

createImage(F) == IF "createImage" \in F THEN "ErrCreateImage" ELSE Nil

refreshStoragePool(F) == IF "refreshStoragePool" \in F THEN "ErrRefreshPool" ELSE Nil

domainXML(F) == IF "domainXML" \in F THEN "ErrDomainXML" ELSE Nil

\* setupDiskImage up to its loop over the directories.
setupDiskImageBegin(dd, F) ==
    IF dd.ImageFormat # "qcow2" THEN "ErrUnsupportedFormat"
    ELSE IF createImage(F) # Nil THEN createImage(F)
    ELSE refreshStoragePool(F)

CreateAlwaysContinues(err) == TRUE

\* Create: "if err != nil { return err }" after each of its steps
CreateContinues(err) == err = Nil

Create ==
    /\ pc = "idle"
    /\ \E F \in FirstOf({"createImage", "refreshStoragePool"}) :
         LET e == setupDiskImageBegin(d, F)
             cs == IF d.ImageFormat # "qcow2" THEN <<>>
                   ELSE IF createImage(F) # Nil THEN <<C0("createImage")>>
                   ELSE <<C0("createImage"), C0("refreshStoragePool")>>
         IN
         /\ calls' = cs
         /\ IF e = Nil
            THEN /\ pc' = "Walk"
                 /\ dir' = ResolveStorePath(d)
                 /\ ret' = Pending
                 /\ g' = [G0 EXCEPT !.loaded0 = d.vmLoaded]
            ELSE /\ pc' = IF CreateContinues(e) THEN "Define" ELSE "returned"
                 /\ dir' = dir
                 /\ ret' = IF CreateContinues(e) THEN Pending ELSE e
                 /\ g' = [G0 EXCEPT !.loaded0 = d.vmLoaded, !.setup = e]
    /\ op' = "Create"
    /\ i' = 0
    /\ UNCHANGED <<d, domains, virState, volCapacity, fs>>

\* "if mode&0001 != 1"
MissingExecute(mode) == mode % 2 # 1

\* "mode |= 0001"
WithExecute(mode) == mode + (1 - (mode % 2))

\* os.Stat fails when the input says so, and for a directory that is not there.
StatFails(F, p) == "Stat" \in F \/ p \notin DOMAIN fs

\* One iteration of setupDiskImage's loop "for dir := d.ResolveStorePath(".");
\* dir != "/"; dir = filepath.Dir(dir)".  The loop has no index; i alternates,
\* so that an iteration is a step even when it changes nothing else.
WalkStep ==
    /\ pc = "Walk"
    /\ dir # Root
    /\ \E F \in FirstOf({"Stat", "Chmod"}) :
         LET chmod == ~StatFails(F, dir) /\ MissingExecute(fs[dir])
             e == IF StatFails(F, dir) THEN "ErrStat"
                  ELSE IF chmod /\ "Chmod" \in F THEN "ErrChmod"
                  ELSE Nil
         IN
         /\ calls' = IF chmod
                     THEN Append(calls, Call("Chmod", dir, WithExecute(fs[dir])))
                     ELSE calls
         /\ fs' = IF chmod /\ e = Nil
                  THEN [fs EXCEPT ![dir] = WithExecute(fs[dir])] ELSE fs
         /\ IF e = Nil
            THEN /\ dir' = Dir(dir)
                 /\ pc' = "Walk"
                 /\ ret' = Pending
                 /\ g' = g
            ELSE /\ dir' = dir
                 /\ pc' = IF CreateContinues(e) THEN "Define" ELSE "returned"
                 /\ ret' = IF CreateContinues(e) THEN Pending ELSE e
                 /\ g' = [g EXCEPT !.setup = e]
    /\ i' = 1 - i
    /\ UNCHANGED <<d, domains, virState, volCapacity, op>>

\* The loop is left at "/": setupDiskImage returns nil to Create.
WalkDone ==
    /\ pc = "Walk"
    /\ dir = Root
    /\ pc' = "Define"
    /\ g' = [g EXCEPT !.setup = Nil]
    /\ i' = 0
    /\ UNCHANGED <<d, domains, virState, volCapacity, op, ret, calls, dir, fs>>

\* Create from "xml, err := domainXML(d)" to the sentinel file.
CreateDefine ==
    /\ pc = "Define"
    /\ \E F \in FirstOf({"domainXML", "NewConnect", "DomainDefineXML", "OpenFile"}) :
         LET x == domainXML(F)
             c == getConnErr(d, F)
             def == IF c # Nil THEN c
                    ELSE IF "DomainDefineXML" \in F THEN "ErrDefine" ELSE Nil
             define == <<Call("DomainDefineXML", d.MachineName, 0)>>
             sentinel == <<Call("OpenFile", d.MachineName, 0)>>
         IN
         IF ~CreateContinues(x)
         THEN /\ pc' = "returned"
              /\ ret' = x
              /\ calls' = calls \o <<C0("domainXML")>>
              /\ g' = [g EXCEPT !.xml = x]
              /\ UNCHANGED <<d, domains, virState>>
         ELSE IF ~CreateContinues(def)
         THEN /\ pc' = "returned"
              /\ ret' = def
              /\ calls' = calls \o <<C0("domainXML")>>
                                 \o (IF c # Nil THEN <<>> ELSE define)
              /\ g' = [g EXCEPT !.xml = x, !.define = def]
              /\ d' = IF c # Nil THEN d ELSE [d EXCEPT !.conn = TRUE]
              /\ UNCHANGED <<domains, virState>>
         ELSE /\ pc' = "CreateStart"
              /\ ret' = Pending
              /\ calls' = calls \o <<C0("domainXML")>> \o define \o sentinel
              /\ g' = [g EXCEPT !.xml = x, !.define = def]
              /\ d' = [d EXCEPT !.conn = TRUE, !.vm = d.MachineName,
                                !.vmLoaded = TRUE]
              /\ domains' = IF def = Nil THEN domains \cup {d.MachineName}
                            ELSE domains
              /\ virState' = IF def = Nil /\ d.MachineName \notin domains
                             THEN "SHUTOFF" ELSE virState
    /\ i' = 0
    /\ UNCHANGED <<volCapacity, op, dir, fs>>

\* Create: "return d.Start()"
CreateStart ==
    /\ pc = "CreateStart"
    /\ StartFrom(op, g, calls)

-----------------------------------------------------------------------------
(* Kill, Remove *)

Kill ==
    /\ pc = "idle"
    /\ \E F \in AnyOf({"NewConnect", "LookupDomainByName", "Destroy"}) :
         LET r == validateVMRef(d, F)
             fail == HandleCallFails(r.d, F, "Destroy")
         IN
         /\ d' = r.d
         /\ IF r.err # Nil
            THEN /\ ret' = r.err
                 /\ calls' = r.calls
                 /\ g' = G0
                 /\ UNCHANGED virState
            ELSE /\ ret' = IF fail THEN "ErrDestroy" ELSE Nil
                 /\ calls' = r.calls \o <<C0("Destroy")>>
                 /\ g' = [G0 EXCEPT !.destroyErr = IF fail THEN "ErrDestroy" ELSE Nil]
                 /\ virState' = IF fail THEN virState ELSE "SHUTOFF"
    /\ op' = "Kill"
    /\ pc' = "returned"
    /\ i' = 0
    /\ UNCHANGED <<domains, volCapacity, dir, fs>>

RemoveResultFirstError(destroyErr, undefineErr) ==
    IF destroyErr # Nil THEN destroyErr ELSE undefineErr

\* "_ = d.vm.Destroy() // Ignore errors" and "return d.vm.Undefine()"
RemoveResult(destroyErr, undefineErr) == undefineErr

Remove ==
    /\ pc = "idle"
    /\ \E F \in AnyOf({"NewConnect", "LookupDomainByName", "Destroy", "Undefine"}) :
         LET r == validateVMRef(d, F)
             destroyErr == IF HandleCallFails(r.d, F, "Destroy")
                           THEN "ErrDestroy" ELSE Nil
             undefineErr == IF HandleCallFails(r.d, F, "Undefine")
                            THEN "ErrUndefine" ELSE Nil
         IN
         /\ d' = r.d
         /\ IF r.err # Nil
            THEN /\ ret' = r.err
                 /\ calls' = r.calls
                 /\ g' = G0
                 /\ UNCHANGED <<virState, domains>>
            ELSE /\ ret' = RemoveResult(destroyErr, undefineErr)
                 /\ calls' = r.calls \o <<C0("Destroy"), C0("Undefine")>>
                 /\ g' = [G0 EXCEPT !.destroyErr = destroyErr,
                                    !.undefineErr = undefineErr]
                 /\ virState' = IF destroyErr = Nil THEN "SHUTOFF" ELSE virState
                 /\ domains' = IF undefineErr = Nil
                               THEN domains \ {r.d.vm} ELSE domains
    /\ op' = "Remove"
    /\ pc' = "returned"
    /\ i' = 0
    /\ UNCHANGED <<volCapacity, dir, fs>>

-----------------------------------------------------------------------------
(* GetState and GetIP as public operations *)

GetStateOp ==
    /\ pc = "idle"
    /\ \E F \in AnyOf({"NewConnect", "LookupDomainByName", "GetState"}) :
         LET st == GetState(d, F) IN
         /\ d' = st.d
         /\ ret' = st.err
         /\ calls' = st.calls
         /\ g' = [G0 EXCEPT !.getS = st.s, !.getErr = st.err, !.vir = st.vir]
    /\ op' = "GetState"
    /\ pc' = "returned"
    /\ i' = 0
    /\ UNCHANGED <<domains, virState, volCapacity, dir, fs>>

GetIPCalls == {"NewConnect", "LookupDomainByName", "GetState",
               "ListAllInterfaceAddresses"}

GetIPFrom(tables) ==
    /\ pc = "idle"
    /\ \E F \in AnyOf(GetIPCalls), ifaces \in tables :
         LET r == GetIP(d, F, ifaces) IN
         /\ d' = r.d
         /\ ret' = r.err
         /\ calls' = r.calls
         /\ g' = [G0 EXCEPT !.getS = r.s, !.getErr = r.sErr, !.ip = r.ip,
                            !.queried = r.queried, !.listOk = r.listOk,
                            !.ifaces = IF r.queried THEN ifaces ELSE <<>>]
    /\ op' = "GetIP"
    /\ pc' = "returned"
    /\ i' = 0
    /\ UNCHANGED <<domains, virState, volCapacity, dir, fs>>

GetIPOp == GetIPFrom(LeaseTables)

\* GetIP on lease tables of up to two interfaces with up to two addresses.
WideLeaseTables == IfaceLists(2, 2)

GetIPWide == GetIPFrom(WideLeaseTables)

-----------------------------------------------------------------------------
(* SetConfigFromFlags *)

\* The flag values of a created machine: the defaults and either network.
CreateFlags == [Memory : {DefaultMemory}, CPU : {DefaultCPUs}, Network : Networks]

SetConfigFromFlags ==
    /\ pc = "idle"
    /\ \E flags \in CreateFlags :
         d' = [d EXCEPT !.Memory = flags.Memory, !.CPU = flags.CPU,
                        !.Network = flags.Network]
    /\ op' = "SetConfigFromFlags"
    /\ pc' = "returned"
    /\ ret' = Nil
    /\ calls' = <<>>
    /\ g' = G0
    /\ i' = 0
    /\ UNCHANGED <<domains, virState, volCapacity, dir, fs>>


-----------------------------------------------------------------------------
(* setMemory, setVcpus, UpdateConfigRaw *)

convertMiBToKiB(sizeMb) == sizeMb * 1024

\* uint64(sizeMb) * 1000 * 1000 / 1024, for 0 <= sizeMb with no uint64
\* wrap-around; 1000000/1024 is 15625/16, which keeps the product small.
convertMBToKiB(sizeMb) == (sizeMb * 15625) \div 16

setMemoryKeepsRecord(dd, memorySize) == dd

\* setMemory's "d.Memory = memorySize"
setMemoryRecord(dd, memorySize) == [dd EXCEPT !.Memory = memorySize]

setMemory(dd, F, memorySize) ==
    LET r == validateVMRef(dd, F)
        kib == convertMBToKiB(memorySize)
        max == <<Call("SetMemoryMax", "", kib)>>
        cfg == <<Call("SetMemoryConfig", "", kib)>>
    IN
    IF r.err # Nil THEN [d |-> r.d, err |-> r.err, calls |-> r.calls]
    ELSE IF HandleCallFails(r.d, F, "SetMemoryMax")
    THEN [d |-> r.d, err |-> "ErrSetMemoryMax", calls |-> r.calls \o max]
    ELSE IF HandleCallFails(r.d, F, "SetMemoryConfig")
    THEN [d |-> r.d, err |-> "ErrSetMemoryConfig", calls |-> r.calls \o max \o cfg]
    ELSE [d |-> setMemoryRecord(r.d, memorySize), err |-> Nil,
          calls |-> r.calls \o max \o cfg]

setVcpusKeepsRecord(dd, cpus) == dd

\* setVcpus's "d.CPU = int(cpus)"
setVcpusRecord(dd, cpus) == [dd EXCEPT !.CPU = cpus]

\* cpus is uint(newDriver.CPU) and the record gets int(cpus): the same
\* number for the CPU counts >= 0 the model draws.
setVcpus(dd, F, cpus) ==
    LET r == validateVMRef(dd, F)
        max == <<Call("SetVcpusMax", "", cpus)>>
        cfg == <<Call("SetVcpusConfig", "", cpus)>>
    IN
    IF r.err # Nil THEN [d |-> r.d, err |-> r.err, calls |-> r.calls]
    ELSE IF HandleCallFails(r.d, F, "SetVcpusMax")
    THEN [d |-> r.d, err |-> "ErrSetVcpusMax", calls |-> r.calls \o max]
    ELSE IF HandleCallFails(r.d, F, "SetVcpusConfig")
    THEN [d |-> r.d, err |-> "ErrSetVcpusConfig", calls |-> r.calls \o max \o cfg]
    ELSE [d |-> setVcpusRecord(r.d, cpus), err |-> Nil,
          calls |-> r.calls \o max \o cfg]

resizeDiskImage(F, capacity) ==
    IF "resizeDiskImage" \in F THEN "ErrResize" ELSE Nil

MemoryAlwaysUpdated(dd, new) == TRUE

\* "if newDriver.Memory != d.Memory"
MemoryChanged(dd, new) == new.Memory # dd.Memory

\* "if newDriver.CPU != d.CPU"
CPUChanged(dd, new) == new.CPU # dd.CPU

\* "if newDriver.DiskCapacity != 0 && newDriver.DiskCapacity != diskCapacity"
DiskChanged(new, diskCapacity) ==
    new.DiskCapacity # 0 /\ new.DiskCapacity # diskCapacity

\* "*d.Driver = newDriver": the embedded record is replaced, the connection
\* and the domain handle stay.
ReplaceRecord(dd, new) == [f \in DOMAIN dd |-> IF f \in ConfigFields THEN new[f] ELSE dd[f]]

NeverReturnsEarly(err) == FALSE

\* UpdateConfigRaw's "if err != nil { return err }" after each step
ReturnsEarly(err) == err # Nil

\* UpdateConfigRaw after a successful json.Unmarshal.
Reconcile(dd, F, new) ==
    LET doMem == MemoryChanged(dd, new)
        m == IF doMem THEN setMemory(dd, F, new.Memory)
             ELSE [d |-> dd, err |-> Nil, calls |-> <<>>]
        doCpu == CPUChanged(m.d, new)
        c == IF doCpu THEN setVcpus(m.d, F, new.CPU)
             ELSE [d |-> m.d, err |-> Nil, calls |-> <<>>]
        vol == getVolCapacity(F)
        doDisk == DiskChanged(new, vol.cap)
        rz == resizeDiskImage(F, new.DiskCapacity)
        none == [setMemory |-> "none", setVcpus |-> "none", volErr |-> "none",
                 volSeen |-> 0, resize |-> "none", vol |-> volCapacity]
        gm == [none EXCEPT !.setMemory = IF doMem THEN m.err ELSE "none"]
        gc == [gm EXCEPT !.setVcpus = IF doCpu THEN c.err ELSE "none"]
        gv == [gc EXCEPT !.volErr = vol.err, !.volSeen = vol.cap]
        cs == m.calls \o c.calls
    IN
    IF ReturnsEarly(m.err) THEN [d |-> m.d, err |-> m.err, calls |-> m.calls] @@ gm
    ELSE IF ReturnsEarly(c.err) THEN [d |-> c.d, err |-> c.err, calls |-> cs] @@ gc
    ELSE IF ReturnsEarly(vol.err)
    THEN [d |-> c.d, err |-> vol.err, calls |-> cs] @@ gv
    ELSE IF doDisk /\ ReturnsEarly(rz)
    THEN [d |-> c.d, err |-> rz,
          calls |-> cs \o <<Call("resizeDiskImage", "", new.DiskCapacity)>>]
         @@ [gv EXCEPT !.resize = rz]
    ELSE IF doDisk
    THEN [d |-> ReplaceRecord(c.d, new), err |-> Nil,
          calls |-> cs \o <<Call("resizeDiskImage", "", new.DiskCapacity)>>]
         @@ [gv EXCEPT !.resize = Nil, !.vol = new.DiskCapacity]
    ELSE [d |-> ReplaceRecord(c.d, new), err |-> Nil, calls |-> cs] @@ gv

UpdateCalls == {"Unmarshal", "NewConnect", "LookupDomainByName",
                "SetMemoryMax", "SetMemoryConfig", "SetVcpusMax",
                "SetVcpusConfig", "getVolCapacity", "resizeDiskImage"}

\* UpdateConfigRaw on a snapshot drawn from configs.
UpdateConfigFrom(configs) ==
    /\ pc = "idle"
    /\ \E F \in FirstOf(UpdateCalls), new \in configs :
         IF "Unmarshal" \in F
         THEN /\ ret' = "ErrUnmarshal"
              /\ g' = [G0 EXCEPT !.old = ConfigOf(d)]
              /\ calls' = <<>>
              /\ UNCHANGED <<d, volCapacity>>
         ELSE LET r == Reconcile(d, F, new) IN
              /\ ret' = r.err
              /\ d' = r.d
              /\ calls' = r.calls
              /\ volCapacity' = r.vol
              /\ g' = [G0 EXCEPT !.parsed = TRUE, !.new = new, !.old = ConfigOf(d),
                                 !.setMemory = r.setMemory, !.setVcpus = r.setVcpus,
                                 !.volErr = r.volErr, !.volSeen = r.volSeen,
                                 !.resize = r.resize]
    /\ op' = "UpdateConfigRaw"
    /\ pc' = "returned"
    /\ i' = 0
    /\ UNCHANGED <<domains, virState, dir, fs>>

UpdateConfigRaw == UpdateConfigFrom(Configs)

\* UpdateConfigRaw on snapshots that differ in the memory size alone, over
\* every size up to MaxMemory and the two of MemValues.
MemoryConfigs ==
    [MachineName : {HostName}, StorePath : {MainStorePath}, ImageFormat : {""},
     Memory : (0..MaxMemory) \cup MemValues, CPU : {0},
     DiskCapacity : {0}, Network : {DefaultNetwork}, IPAddress : {""}]

UpdateMemory == UpdateConfigFrom(MemoryConfigs)

-----------------------------------------------------------------------------
(* The caller and the hypervisor *)

\* The caller takes the result; the driver is idle again.
Return ==
    /\ pc = "returned"
    /\ pc' = "idle"
    /\ op' = "none"
    /\ ret' = Nil
    /\ calls' = <<>>
    /\ g' = G0
    /\ i' = 0
    /\ UNCHANGED <<d, domains, virState, volCapacity, dir, fs>>

\* The domain changes state on the hypervisor's side, while the driver is
\* idle or asleep in a polling loop.
HypervisorStep ==
    /\ pc \in {"idle", "StopPoll", "StartPoll"}
    /\ \E s \in NativeStates \ {virState} : virState' = s
    /\ UNCHANGED <<d, domains, volCapacity, op, pc, i, ret, calls, g, dir, fs>>

Next ==
    \/ SetConfigFromFlags
    \/ Start
    \/ StartPoll
    \/ Stop
    \/ StopPoll
    \/ Restart
    \/ RestartAfterStop
    \/ RestartStart
    \/ Kill
    \/ Remove
    \/ GetStateOp
    \/ GetIPOp
    \/ Return
    \/ HypervisorStep

Spec == Init /\ [][Next]_vars

\* The configuration side of the driver: flags, reconciliation, and the
\* state query that resolves the domain handle.
NextConfig ==
    \/ SetConfigFromFlags
    \/ UpdateConfigRaw
    \/ GetStateOp
    \/ Return

SpecConfig == Init /\ [][NextConfig]_vars

\* GetIP alone, on the wider lease tables.
NextGetIP ==
    \/ GetIPWide
    \/ Return
    \/ HypervisorStep

SpecGetIP == Init /\ [][NextGetIP]_vars

\* Memory updates alone, over the wider range of sizes.
NextMemory ==
    \/ UpdateMemory
    \/ Return

SpecMemory == Init /\ [][NextMemory]_vars

\* Creation.  The host has configured the driver before Create: the store
\* path and the image format are its choice, and the machine's directories
\* exist with or without the other-execute bit.  The machine is not defined
\* yet, or is left defined from an earlier run.
StorePaths == {Path(abs, comps) : abs \in BOOLEAN, comps \in SeqsUpTo({"path"}, MaxDepth)}
ImageFormats == {"qcow2", "raw"}
Modes == {492, 493}

InitCreate ==
    /\ \E sp \in StorePaths, format \in ImageFormats :
         /\ d = [NewDriver(HostName, sp) EXCEPT !.ImageFormat = format]
         /\ fs \in [Ancestors(ResolveStorePath(d)) -> Modes]
    /\ dir = Root
    /\ domains \in {{OtherName}, Names}
    /\ virState = IF HostName \in domains THEN "SHUTOFF" ELSE "NOSTATE"
    /\ volCapacity = 1
    /\ op = "none"
    /\ pc = "idle"
    /\ i = 0
    /\ ret = Nil
    /\ calls = <<>>
    /\ g = G0

NextCreate ==
    \/ SetConfigFromFlags
    \/ Create
    \/ WalkStep
    \/ WalkDone
    \/ CreateDefine
    \/ CreateStart
    \/ StartPoll
    \/ GetStateOp
    \/ Kill
    \/ Remove
    \/ Return

SpecCreate == InitCreate /\ [][NextCreate]_vars

\* The walk goes on while the program runs: its iterations are not starved.
SpecCreateFair == SpecCreate /\ WF_vars(WalkStep) /\ WF_vars(WalkDone)

-----------------------------------------------------------------------------
(* Properties *)

Returned(o) == op = o /\ pc = "returned"

\* C1: whenever the state query at the start of Stop reports Stopped, Stop
\* returns success, has issued no Shutdown call and has polled not once.
C1_StopIdempotent ==
    (g.stopRet # "none" /\ g.stopS = "Stopped") =>
        /\ g.stopRet = Nil
        /\ ~Issued(calls, "Shutdown")
        /\ g.polls = 0

C1_Witness ==
    /\ Returned("Stop")
    /\ g.stopS = "Stopped"
    /\ virState = "SHUTDOWN"
    /\ ret = Nil

\* C2: when Stop found the VM not Stopped, it issued one Shutdown; if that
\* failed Stop returns its error without a poll; otherwise Stop polls at most
\* 120 times, is still polling only while no poll has observed Stopped,
\* returns success exactly at a poll that observed Stopped, and returns the
\* graceful-shutdown timeout error only after 120 polls none of which did.
C2_StopPolling ==
    /\ g.polls <= 120
    /\ pc = "StopPoll" =>
          /\ ~g.sawStopped
          /\ g.polls < 120
          /\ g.stopS = "NotStopped"
          /\ CountOf(calls, "Shutdown") = 1
    /\ (g.stopRet # "none" /\ g.stopS = "NotStopped") =>
          /\ CountOf(calls, "Shutdown") = 1
          /\ g.stopRet \in {Nil, "ErrShutdown", "ErrGracefulShutdown"}
          /\ g.stopRet = Nil => g.sawStopped /\ g.polls \in 1..120
          /\ g.stopRet = "ErrGracefulShutdown" => ~g.sawStopped /\ g.polls = 120
          /\ g.stopRet = "ErrShutdown" => g.polls = 0

C2_Witness ==
    /\ Returned("Stop")
    /\ ret = "ErrGracefulShutdown"
    /\ g.polls = 120

\* C3: a Start that polled returns success with the first non-empty IP a
\* poll reported as the recorded IP address, and a Start whose 60 polls all
\* came back empty returns success with an empty recorded IP address.
C3_StartRecordsPolledIP ==
    (op \in {"Start", "Restart"} /\ g.startRet # "none" /\ g.ipPolls > 0) =>
        /\ g.firstIP # "" => g.startRet = Nil /\ d.IPAddress = g.firstIP
        /\ (g.firstIP = "" /\ g.ipPolls = 60 /\ g.startRet # "ErrGetIPDuringStart") =>
              g.startRet = Nil /\ d.IPAddress = ""

\* The volume's capacity when the UpdateConfigRaw that has returned began.
VolBefore == IF g.resize = Nil THEN g.volSeen ELSE volCapacity

Invoked(r) == r # "none"
Passed(r) == r \in {"none", Nil}

\* C4 as stated: each live update is invoked if and only if its field
\* changed, and after success the record equals the new configuration.
C4_Original ==
    (Returned("UpdateConfigRaw") /\ g.parsed) =>
        /\ Invoked(g.setMemory) <=> g.new.Memory # g.old.Memory
        /\ Invoked(g.setVcpus) <=> g.new.CPU # g.old.CPU
        /\ Invoked(g.resize) <=>
              (g.new.DiskCapacity # 0 /\ g.new.DiskCapacity # VolBefore)
        /\ ret = Nil => ConfigOf(d) = g.new

\* C4: setMemory is invoked iff the new memory differs; setVcpus iff the new
\* CPU count differs and the memory step did not fail; the resize iff the
\* new capacity is non-zero, differs from the volume's capacity and no
\* earlier step (memory, vCPU, capacity query) failed; no hypervisor update
\* call is issued outside these; after success the record is the snapshot.
C4_OnlyChangedFields ==
    (Returned("UpdateConfigRaw") /\ g.parsed) =>
        /\ Invoked(g.setMemory) <=> g.new.Memory # g.old.Memory
        /\ Invoked(g.setVcpus) <=>
              (g.new.CPU # g.old.CPU /\ Passed(g.setMemory))
        /\ Invoked(g.volErr) <=> (Passed(g.setMemory) /\ Passed(g.setVcpus))
        /\ Invoked(g.resize) <=>
              /\ g.new.DiskCapacity # 0
              /\ g.new.DiskCapacity # VolBefore
              /\ Passed(g.setMemory) /\ Passed(g.setVcpus) /\ g.volErr = Nil
        /\ Issued(calls, "SetMemoryMax") \/ Issued(calls, "SetMemoryConfig")
              => Invoked(g.setMemory)
        /\ Issued(calls, "SetVcpusMax") \/ Issued(calls, "SetVcpusConfig")
              => Invoked(g.setVcpus)
        /\ Issued(calls, "resizeDiskImage") <=> Invoked(g.resize)
        /\ ret = Nil => ConfigOf(d) = g.new

C4_Witness ==
    /\ Returned("UpdateConfigRaw")
    /\ ret = Nil
    /\ g.old.Memory = 8096 /\ g.old.CPU = 4
    /\ g.new.Memory = 4096 /\ g.new.CPU = 4
    /\ CountOf(calls, "SetMemoryMax") = 1
    /\ ~Issued(calls, "SetVcpusMax") /\ ~Issued(calls, "SetVcpusConfig")
    /\ d.Memory = 4096 /\ d.CPU = 4

\* floor(mb * 1000000 / 1024), computed in two parts.
KiBOf(mb) == (mb \div 16) * 15625 + ((mb % 16) * 15625) \div 16

\* C5 as stated: a failed UpdateConfigRaw leaves the whole record as it was.
C5_Original ==
    (Returned("UpdateConfigRaw") /\ ret # Nil) => ConfigOf(d) = g.old

\* C5: a failed UpdateConfigRaw has replaced nothing wholesale: every field
\* but Memory and CPU is as before; Memory is the new value exactly when
\* setMemory succeeded (both calls issued with the converted new value), so
\* record and hypervisor agree on it, and is as before otherwise; likewise
\* CPU and setVcpus.
C5_PartialFailure ==
    (Returned("UpdateConfigRaw") /\ ret # Nil) =>
        /\ \A f \in ConfigFields \ {"Memory", "CPU"} : d[f] = g.old[f]
        /\ d.Memory = IF g.setMemory = Nil THEN g.new.Memory ELSE g.old.Memory
        /\ d.CPU = IF g.setVcpus = Nil THEN g.new.CPU ELSE g.old.CPU
        /\ g.setMemory = Nil =>
              /\ Call("SetMemoryMax", "", KiBOf(g.new.Memory))
                    \in {calls[k] : k \in 1..Len(calls)}
              /\ Call("SetMemoryConfig", "", KiBOf(g.new.Memory))
                    \in {calls[k] : k \in 1..Len(calls)}

C5_Witness ==
    /\ Returned("UpdateConfigRaw")
    /\ ret = "ErrSetVcpusMax"
    /\ g.setMemory = Nil
    /\ g.new.Memory # g.old.Memory
    /\ d.Memory = g.new.Memory
    /\ d.CPU = g.old.CPU

\* C6: the machine name is the name given to NewDriver, and every domain
\* lookup uses that name.
C6_MachineNameImmutable ==
    /\ d.MachineName = HostName
    /\ \A k \in 1..Len(calls) :
          calls[k].call = "LookupDomainByName" => calls[k].name = HostName

\* C7: a Remove that resolved the handle issued Destroy and then Undefine,
\* once each and nothing after, and returns exactly Undefine's result; a
\* Remove that could not resolve it issued neither and returns an error.
C7_Remove ==
    Returned("Remove") =>
        IF d.vmLoaded
        THEN /\ Len(calls) >= 2
             /\ calls[Len(calls) - 1] = C0("Destroy")
             /\ calls[Len(calls)] = C0("Undefine")
             /\ CountOf(calls, "Destroy") = 1 /\ CountOf(calls, "Undefine") = 1
             /\ ret = g.undefineErr
             /\ g.undefineErr \in {Nil, "ErrUndefine"}
        ELSE /\ ~Issued(calls, "Destroy") /\ ~Issued(calls, "Undefine")
             /\ ret \in {"ErrConnect", "ErrFetchMachine"}

C7_Witness ==
    /\ Returned("Remove")
    /\ g.destroyErr = "ErrDestroy"
    /\ g.undefineErr = Nil
    /\ ret = Nil

\* The mapping C8 states.
ExpectedState ==
    [NOSTATE |-> "None", RUNNING |-> "Running", BLOCKED |-> "Error",
     PAUSED |-> "Paused", SHUTDOWN |-> "Stopped", SHUTOFF |-> "Stopped",
     CRASHED |-> "Error", PMSUSPENDED |-> "Saved"]

\* C8: a GetState that returns no error read one of the eight native states
\* and returns the abstract state the table gives for it; a GetState that
\* returns an error (handle unresolved, or the query failed) returns None.
C8_GetStateMapping ==
    Returned("GetState") =>
        IF ret = Nil
        THEN /\ d.vmLoaded
             /\ g.vir = virState
             /\ g.vir \in DOMAIN ExpectedState
             /\ g.getS = ExpectedState[g.vir]
        ELSE /\ g.getS = "None"
             /\ ret \in {"ErrConnect", "ErrFetchMachine", "ErrGetState"}
             /\ ~d.vmLoaded <=> ret \in {"ErrConnect", "ErrFetchMachine"}

C8_Witness ==
    /\ Returned("GetState")
    /\ ret = Nil
    /\ g.vir = "BLOCKED"
    /\ g.getS = "Error"

\* Positions <<k, j>> of the IPv4 addresses on interfaces with the VM's MAC.
Hits(ifaces) ==
    {h \in (1..Len(ifaces)) \X (1..2) :
        /\ ifaces[h[1]].Hwaddr = "52:fd:fc:07:21:82"
        /\ h[2] <= Len(ifaces[h[1]].Addrs)
        /\ ifaces[h[1]].Addrs[h[2]].Type = "IPv4"}
Earlier(h1, h2) == h1[1] < h2[1] \/ (h1[1] = h2[1] /\ h1[2] <= h2[2])
IsFirstIPv4(ifaces, ip) ==
    IF Hits(ifaces) = {} THEN ip = ""
    ELSE \E h \in Hits(ifaces) :
            /\ \A h2 \in Hits(ifaces) : Earlier(h, h2)
            /\ ip = ifaces[h[1]].Addrs[h[2]].Addr

GetIPNotRunning ==
    (g.getErr # Nil \/ g.getS # "Running") =>
        /\ ret # Nil
        /\ ~g.queried
        /\ g.ip = ""
        /\ g.getErr = Nil => ret = "ErrNotRunning"

\* C9 as stated: an error and no interface query when the state is not
\* Running or cannot be obtained; when it is Running, no error and the first
\* IPv4 address of the interface with the VM's MAC, or the empty string.
C9_Original ==
    Returned("GetIP") =>
        /\ GetIPNotRunning
        /\ (g.getErr = Nil /\ g.getS = "Running") =>
              ret = Nil /\ IsFirstIPv4(g.ifaces, g.ip)

\* C9: as stated, except that in state Running the interface query itself
\* may fail, and then GetIP returns that error and no address.
C9_GetIP ==
    Returned("GetIP") =>
        /\ GetIPNotRunning
        /\ (g.getErr = Nil /\ g.getS = "Running") =>
              /\ g.queried
              /\ IF g.listOk
                 THEN ret = Nil /\ IsFirstIPv4(g.ifaces, g.ip)
                 ELSE ret = "ErrListInterfaces" /\ g.ip = ""

C9_Witness ==
    /\ Returned("GetIP")
    /\ ret = Nil
    /\ Len(g.ifaces) = 2
    /\ g.ifaces[1].Hwaddr = OtherMac
    /\ Len(g.ifaces[1].Addrs) = 1 /\ g.ifaces[1].Addrs[1].Type = IPv4
    /\ Len(g.ifaces[2].Addrs) = 2 /\ g.ifaces[2].Addrs[1].Type = IPv6
    /\ g.ip # ""
    /\ g.ip = g.ifaces[2].Addrs[2].Addr
    /\ g.ip # g.ifaces[1].Addrs[1].Addr

StartCallNames == {"LookupNetworkByName", "NetworkCreate", "Create"}

\* C10: a Restart whose Stop returned an error returns that error, has run
\* no step of Start and issued no power-on; Start runs inside Restart only
\* after Stop returned success, and Restart then returns what Start returns.
C10_Restart ==
    /\ (op = "Restart" /\ pc \in {"RestartStart", "StartPoll"}) => g.stopRet = Nil
    /\ Returned("Restart") =>
          IF g.stopRet # Nil
          THEN /\ ret = g.stopRet
               /\ g.startRet = "none"
               /\ g.ipPolls = 0
               /\ \A c \in StartCallNames : ~Issued(calls, c)
          ELSE /\ g.startRet # "none"
               /\ ret = g.startRet

C10_Witness ==
    /\ Returned("Restart")
    /\ g.stopRet = "ErrGracefulShutdown"
    /\ ret = "ErrGracefulShutdown"
    /\ ~Issued(calls, "Create")

\* The step of Create a call belongs to: provisioning the disk image (1),
\* building the descriptor (2), defining the domain (3), writing the
\* sentinel (4), Start (5).
CreateStepOf(c) ==
    CASE c \in {"createImage", "refreshStoragePool", "Chmod"} -> 1
      [] c = "domainXML" -> 2
      [] c = "DomainDefineXML" -> 3
      [] c = "OpenFile" -> 4
      [] OTHER -> 5

\* C11: Create's calls come in the order provision, descriptor, define,
\* sentinel, Start; the domain is defined only after setupDiskImage and
\* domainXML succeeded; Create marks the handle resolved and runs Start only
\* after the define succeeded; Create returns the error of its first failing
\* step and runs nothing after it, and otherwise returns what Start returns.
C11_CreateOrder ==
    op = "Create" =>
        /\ \A j, k \in 1..Len(calls) :
              j < k => CreateStepOf(calls[j].call) <= CreateStepOf(calls[k].call)
        /\ Issued(calls, "DomainDefineXML") => g.setup = Nil /\ g.xml = Nil
        /\ Issued(calls, "DomainDefineXML") => CountOf(calls, "DomainDefineXML") = 1
        /\ (pc \in {"CreateStart", "StartPoll"} \/ g.startRet # "none") =>
              /\ g.define = Nil
              /\ d.vmLoaded /\ d.vm = d.MachineName
              /\ d.MachineName \in domains
              /\ Issued(calls, "OpenFile")
        /\ d.vmLoaded # g.loaded0 => g.define = Nil
        /\ g.define = Nil => d.vmLoaded
        /\ pc = "returned" =>
              IF g.setup # Nil
              THEN /\ ret = g.setup /\ ret # Nil
                   /\ g.xml = "none" /\ g.define = "none" /\ g.startRet = "none"
                   /\ \A k \in 1..Len(calls) : CreateStepOf(calls[k].call) = 1
              ELSE IF g.xml # Nil
              THEN /\ ret = g.xml /\ ret # Nil
                   /\ g.define = "none" /\ g.startRet = "none"
                   /\ ~Issued(calls, "DomainDefineXML")
              ELSE IF g.define # Nil
              THEN /\ ret = g.define /\ ret # Nil
                   /\ g.startRet = "none"
                   /\ d.vmLoaded = g.loaded0
                   /\ \A k \in 1..Len(calls) : CreateStepOf(calls[k].call) <= 3
              ELSE /\ g.startRet # "none"
                   /\ ret = g.startRet

C11_Witness ==
    /\ Returned("Create")
    /\ ret = Nil
    /\ Issued(calls, "Chmod")
    /\ Issued(calls, "DomainDefineXML")
    /\ g.firstIP # ""
    /\ d.IPAddress = g.firstIP
    /\ HostName \in domains

\* C17: setupDiskImage's walk over the directories ends, for every store
\* path: once the loop is entered, it is eventually left.
C17_WalkTerminates == (pc = "Walk") ~> (pc # "Walk")

\* The reconciler's step a call belongs to: memory (1), vCPU (2), disk (3);
\* 0 for the domain lookup, which the first live update makes.
ReconcileStepOf(c) ==
    CASE c \in {"SetMemoryMax", "SetMemoryConfig"} -> 1
      [] c \in {"SetVcpusMax", "SetVcpusConfig"} -> 2
      [] c = "resizeDiskImage" -> 3
      [] OTHER -> 0

Failed(r) == r \notin {"none", Nil}

\* C12: UpdateConfigRaw's calls come in the order memory, vCPU, resize; a
\* failed step is what UpdateConfigRaw returns and no later step is invoked
\* or issues a call; a field other than memory and CPU differs from before
\* only after success, and success means no step failed, the capacity query
\* succeeded and the record is the snapshot.
C12_ReconcileOrder ==
    (Returned("UpdateConfigRaw") /\ g.parsed) =>
        /\ \A j, k \in 1..Len(calls) :
              (j < k /\ ReconcileStepOf(calls[k].call) > 0) =>
                  ReconcileStepOf(calls[j].call) <= ReconcileStepOf(calls[k].call)
        /\ Failed(g.setMemory) =>
              /\ ret = g.setMemory
              /\ ~Invoked(g.setVcpus) /\ ~Invoked(g.volErr) /\ ~Invoked(g.resize)
              /\ \A k \in 1..Len(calls) : ReconcileStepOf(calls[k].call) <= 1
        /\ Failed(g.setVcpus) =>
              /\ ret = g.setVcpus
              /\ ~Invoked(g.volErr) /\ ~Invoked(g.resize)
              /\ \A k \in 1..Len(calls) : ReconcileStepOf(calls[k].call) <= 2
        /\ Failed(g.volErr) => ret = g.volErr /\ ~Invoked(g.resize)
        /\ Failed(g.resize) => ret = g.resize
        /\ ret # Nil =>
              \/ Failed(g.setMemory) \/ Failed(g.setVcpus)
              \/ Failed(g.volErr) \/ Failed(g.resize)
        /\ (\E f \in ConfigFields \ {"Memory", "CPU"} : d[f] # g.old[f]) => ret = Nil
        /\ ret = Nil =>
              /\ Passed(g.setMemory) /\ Passed(g.setVcpus) /\ Passed(g.resize)
              /\ g.volErr = Nil
              /\ ConfigOf(d) = g.new

C12_Witness ==
    /\ Returned("UpdateConfigRaw")
    /\ ret = "ErrResize"
    /\ g.setMemory = Nil /\ g.setVcpus = Nil
    /\ g.new.Network # g.old.Network
    /\ d.Network = g.old.Network
    /\ d.Memory = g.new.Memory /\ d.CPU = g.new.CPU

\* The positions in calls of the calls named c.
At(c) == {k \in 1..Len(calls) : calls[k].call = c}

\* A live update made its maximum call and then, if that succeeded, its
\* configured call with the same value v; it reports success exactly when
\* both were made and succeeded, and a failed handle resolution makes neither.
TwoCalls(r, max, cfg, v, maxErr, cfgErr) ==
    /\ Cardinality(At(max)) <= 1 /\ Cardinality(At(cfg)) <= 1
    /\ \A k \in At(max) \cup At(cfg) : calls[k].val = v
    /\ \A k \in At(cfg) : k > 1 /\ calls[k - 1].call = max
    /\ Invoked(r) =>
          /\ r \in {Nil, "ErrConnect", "ErrFetchMachine", maxErr, cfgErr}
          /\ r \in {"ErrConnect", "ErrFetchMachine"} => At(max) = {} /\ At(cfg) = {}
          /\ r = maxErr => At(max) # {} /\ At(cfg) = {}
          /\ r \in {Nil, cfgErr} => At(max) # {} /\ At(cfg) # {}
    /\ ~Invoked(r) => At(max) = {} /\ At(cfg) = {}

\* C13: setMemory and setVcpus each issue the maximum call and then the
\* configured call with the same value, the second only after the first
\* succeeded; when the update failed (either call, or the handle resolution)
\* the recorded memory (CPU count) is the old one, and when it succeeded it
\* is the new one.
C13_TwoCallsFailFast ==
    (Returned("UpdateConfigRaw") /\ g.parsed) =>
        /\ TwoCalls(g.setMemory, "SetMemoryMax", "SetMemoryConfig",
                    KiBOf(g.new.Memory), "ErrSetMemoryMax", "ErrSetMemoryConfig")
        /\ TwoCalls(g.setVcpus, "SetVcpusMax", "SetVcpusConfig",
                    g.new.CPU, "ErrSetVcpusMax", "ErrSetVcpusConfig")
        /\ Invoked(g.setMemory) =>
              d.Memory = IF g.setMemory = Nil THEN g.new.Memory ELSE g.old.Memory
        /\ Invoked(g.setVcpus) =>
              d.CPU = IF g.setVcpus = Nil THEN g.new.CPU ELSE g.old.CPU

C13_Witness ==
    /\ Returned("UpdateConfigRaw")
    /\ ret = "ErrSetVcpusConfig"
    /\ g.setMemory = "none"
    /\ Issued(calls, "SetVcpusMax") /\ Issued(calls, "SetVcpusConfig")
    /\ g.new.CPU # g.old.CPU
    /\ d.CPU = g.old.CPU

\* C18: every memory call setMemory(M) issues carries the value k with
\* 1024 * k <= M * 1000000 < 1024 * (k + 1) (both sides divided by 64), and
\* a successful setMemory issued exactly the two calls, maximum and
\* configured, with that value.
C18_MemoryInKiB ==
    (Returned("UpdateConfigRaw") /\ g.parsed) =>
        /\ \A k \in At("SetMemoryMax") \cup At("SetMemoryConfig") :
              /\ 16 * calls[k].val <= 15625 * g.new.Memory
              /\ 15625 * g.new.Memory < 16 * (calls[k].val + 1)
        /\ g.setMemory = Nil =>
              /\ Cardinality(At("SetMemoryMax")) = 1
              /\ Cardinality(At("SetMemoryConfig")) = 1
              /\ \A j \in At("SetMemoryMax"), k \in At("SetMemoryConfig") :
                    j < k /\ calls[j].val = calls[k].val

C18_Witness ==
    /\ Returned("UpdateConfigRaw")
    /\ ret = Nil
    /\ g.new.Memory = 33
    /\ Call("SetMemoryMax", "", 32226) \in {calls[k] : k \in 1..Len(calls)}
    /\ Call("SetMemoryConfig", "", 32226) \in {calls[k] : k \in 1..Len(calls)}
    /\ d.Memory = 33

\* The calls a step issues.
NewCalls ==
    IF pc = "idle" \/ Len(calls') < Len(calls) THEN calls'
    ELSE SubSeq(calls', Len(calls) + 1, Len(calls'))
LooksUp(cs) == \E k \in 1..Len(cs) : cs[k].call = "LookupDomainByName"
Defines(cs) == \E k \in 1..Len(cs) : cs[k].call = "DomainDefineXML"

\* The operations that begin with validateVMRef and return its error as it is.
BeginsWithVMRef == pc = "idle" /\ op' \in {"GetState", "Kill", "Remove"}

\* In every step: a resolved handle stays as it is and no lookup is made;
\* an unresolved handle becomes resolved only by a successful lookup of the
\* machine's name or by Create's define; an operation that finds the handle
\* unresolved looks the machine up unless the connection fails, and when
\* either fails the handle stays unresolved and the operation returns
\* validateVMRef's error.
HandleStep ==
    /\ d.vmLoaded =>
          /\ d'.vmLoaded /\ d'.vm = d.vm
          /\ ~LooksUp(NewCalls)
    /\ (~d.vmLoaded /\ d'.vmLoaded) =>
          /\ d'.vm = d.MachineName
          /\ d.MachineName \in domains \cup domains'
          /\ LooksUp(NewCalls) \/ Defines(NewCalls)
    /\ \A k \in 1..Len(NewCalls) :
          NewCalls[k].call = "LookupDomainByName" => NewCalls[k].name = d.MachineName
    /\ (BeginsWithVMRef /\ ~d.vmLoaded) =>
          /\ LooksUp(NewCalls) \/ ret' = "ErrConnect"
          /\ ~d'.vmLoaded => ret' \in {"ErrConnect", "ErrFetchMachine"}
          /\ ret' = "ErrFetchMachine" <=> (LooksUp(NewCalls) /\ ~d'.vmLoaded)

StartOps == {"Start", "Restart", "Create"}

\* C15: Start issues the power-on only after the handle resolved,
\* validateNetwork and validateStoragePool succeeded and, exactly when the
\* recorded disk capacity was 0, the volume query succeeded; a step runs only
\* if the steps before it succeeded; the first failing step's error is what
\* Start returns, with no power-on issued; a failed power-on is what Start
\* returns, with no poll made; Start polls only after a power-on.
C15_StartOrder ==
    /\ (op \in StartOps /\ pc = "StartPoll") => Issued(calls, "Create")
    /\ (op \in StartOps /\ g.steps.run) =>
          /\ g.ipPolls = 0
          /\ Issued(calls, "Create") =>
                /\ CountOf(calls, "Create") = 1
                /\ calls[Len(calls)] = C0("Create")
                /\ d.vmLoaded
                /\ g.steps.vmRef = Nil /\ g.steps.netErr = Nil /\ g.steps.pool = Nil
                /\ g.steps.vol = IF g.steps.disk0 = 0 THEN Nil ELSE "none"
                /\ g.startRet \in {"none", Nil, "ErrCreate"}
          /\ ~Passed(g.steps.vmRef) => ~Invoked(g.steps.netErr)
          /\ ~Passed(g.steps.netErr) => ~Invoked(g.steps.pool)
          /\ ~Passed(g.steps.pool) => ~Invoked(g.steps.vol)
          /\ \A s \in {"vmRef", "netErr", "pool", "vol"} :
                Failed(g.steps[s]) =>
                    /\ pc = "returned"
                    /\ g.startRet = g.steps[s]
                    /\ ~Issued(calls, "Create")
          /\ g.startRet = "ErrCreate" => pc = "returned" /\ Issued(calls, "Create")
          /\ ~Issued(calls, "Create") =>
                \E s \in {"vmRef", "netErr", "pool", "vol"} : Failed(g.steps[s])

C15_Witness ==
    /\ Returned("Start")
    /\ ret = "ErrVolCapacity"
    /\ g.steps.pool = Nil
    /\ g.steps.disk0 = 0
    /\ d.DiskCapacity = 0
    /\ ~Issued(calls, "Create")

\* What C16 says of validateNetwork but for re-creation: no network
\* configured means success and no call; a network that is absent, has not
\* exactly one subnet entry, or whose entry has no address means failure;
\* IsActive is asked only after these checks; a failed validateNetwork is
\* what Start returns, with no power-on.
NetworkChecks ==
    /\ d.Network = "" =>
          /\ g.steps.netErr = Nil /\ ~g.steps.looked
          /\ ~Issued(calls, "LookupNetworkByName") /\ ~Issued(calls, "NetworkCreate")
    /\ d.Network # "" => Issued(calls, "LookupNetworkByName") \/ g.steps.netErr = "ErrConnect"
    /\ g.steps.looked =>
          /\ (~g.steps.net.exists \/ g.steps.net.nIPs # 1 \/ ~g.steps.net.address) =>
                /\ Failed(g.steps.netErr)
                /\ g.steps.active = "none"
                /\ ~Issued(calls, "NetworkCreate")
          /\ g.steps.active = "active" => g.steps.net.active
          /\ g.steps.active = "inactive" => ~g.steps.net.active
    /\ ~g.steps.looked => g.steps.active = "none" /\ g.steps.net = NoNet
    /\ g.steps.netErr = "ErrNetworkCreate" => Issued(calls, "NetworkCreate")
    /\ Failed(g.steps.netErr) =>
          /\ pc = "returned"
          /\ g.startRet = g.steps.netErr
          /\ ~Issued(calls, "Create")

\* C16 as stated: the network is re-created exactly when it passed the
\* checks and IsActive did not answer active, and an active network is
\* never re-created.
C16_Original ==
    (op \in StartOps /\ g.steps.run /\ Invoked(g.steps.netErr)) =>
        /\ NetworkChecks
        /\ Issued(calls, "NetworkCreate") <=> g.steps.active \in {"inactive", "failed"}
        /\ Issued(calls, "NetworkCreate") => ~g.steps.net.active

\* C16: validateNetwork succeeds without a call when no network is
\* configured; it fails for a network that is absent, has not exactly one
\* subnet entry, or whose entry has no address; a network that passed these
\* checks is re-created exactly when IsActive answered inactive or failed (a
\* failed query is taken for inactive, whether or not the network is
\* active), so a network reported active is never re-created; a failed
\* re-creation fails validateNetwork and Start.
C16_ValidateNetwork ==
    (op \in StartOps /\ g.steps.run /\ Invoked(g.steps.netErr)) =>
        /\ NetworkChecks
        /\ Issued(calls, "NetworkCreate") <=> g.steps.active \in {"inactive", "failed"}
        /\ CountOf(calls, "NetworkCreate") <= 1
        /\ (Issued(calls, "NetworkCreate") /\ g.steps.net.active) =>
              g.steps.active = "failed"

C16_Witness ==
    /\ op = "Start"
    /\ pc = "StartPoll"
    /\ g.steps.run
    /\ g.steps.active = "inactive"
    /\ g.steps.netErr = Nil
    /\ Issued(calls, "NetworkCreate")
    /\ Issued(calls, "Create")

\* C19: a Stop that returned success observed Stopped in a state query of
\* its own that succeeded: its first query, with no poll made, or its last
\* poll; a Stop whose last poll's query failed did not observe Stopped in
\* it and returned the timeout error, after 120 polls.
C19_StopObservedStopped ==
    (Returned("Stop") \/ pc = "StopReturned") =>
        /\ g.stopRet = Nil =>
              \/ g.stopS = "Stopped" /\ g.polls = 0
              \/ /\ g.stopS = "NotStopped" /\ g.polls >= 1
                 /\ g.sawStopped /\ g.pollErr = Nil
        /\ Failed(g.pollErr) =>
              /\ ~g.sawStopped
              /\ g.stopRet = "ErrGracefulShutdown"
              /\ g.polls = 120

C19_Witness ==
    /\ Returned("Stop")
    /\ g.pollErr = "ErrGetState"
    /\ virState = "SHUTOFF"
    /\ ret = "ErrGracefulShutdown"

\* C20: Start's loop goes on only after a GetIP that returned no error; a
\* poll in which GetIP returned an error ends Start at once with an error,
\* after the power-on, with the recorded IP as it was before the poll and
\* with at most 60 polls made; Start returns that error in no other case.
C20_StartPollError ==
    op \in StartOps =>
        /\ (pc = "StartPoll" /\ g.ipPolls > 0) => g.ipErr = Nil
        /\ Failed(g.ipErr) =>
              /\ pc = "returned"
              /\ g.startRet = "ErrGetIPDuringStart"
              /\ ret = "ErrGetIPDuringStart"
              /\ Issued(calls, "Create")
              /\ d.IPAddress = g.ip0
              /\ g.firstIP = ""
              /\ g.ipPolls = i + 1
              /\ g.ipPolls \in 1..60
        /\ g.startRet = "ErrGetIPDuringStart" => Failed(g.ipErr)

C20_Witness ==
    /\ Returned("Start")
    /\ ret = "ErrGetIPDuringStart"
    /\ g.ipErr = "ErrNotRunning"
    /\ g.ipPolls = 3
    /\ virState = "PAUSED"
    /\ Issued(calls, "Create")

====
